---- MODULE Spec2Model ----
(***************************************************************************)
(* Account-termination workflow: the Step Functions state machine that     *)
(* src/src/stack.ts builds in createStepFunctionsTasks, executed under the *)
(* Amazon States Language rules for Task, Choice, Succeed and Fail states, *)
(* Retry and Catch.  The four Lambda handlers live in src/lambdas/ (Python,*)
(* not part of the sources read here); their payloads follow the declared  *)
(* interfaces of src/src/config.ts and the reference policy of the         *)
(* specification.                                                          *)
(***************************************************************************)
EXTENDS Integers, Sequences, FiniteSets, TLC

\* ------------------------------------------------------------------------
\* Bounds
\* ------------------------------------------------------------------------

\* Largest count of EBS volumes / RDS instances a pre-check reports.
MaxResources == 1

\* ------------------------------------------------------------------------
\* Executions and inputs
\* ------------------------------------------------------------------------

Execs == {"exec-1"}

\* Two executions of the state machine, to be started for one account.
SameAccountExecs == {"exec-1", "exec-2"}

AccountIdLength == 12

Digits == {"0", "1", "2", "3", "4", "5", "6", "7", "8", "9"}

\* /^\d{12}$/
IsWellFormedAccountId(id) ==
    /\ Len(id) = AccountIdLength
    /\ \A i \in 1..Len(id) : id[i] \in Digits

\* "999999999999", "99999999999" (too short), "99999999999x" (not numeric)
AccountIds ==
    { [i \in 1..12 |-> "9"],
      [i \in 1..11 |-> "9"],
      [i \in 1..12 |-> IF i = 12 THEN "x" ELSE "9"] }

\* ------------------------------------------------------------------------
\* The state machine definition (createStepFunctionsTasks)
\* ------------------------------------------------------------------------

LambdaTasks ==
    {"PreCheckTask", "AccountManagementTask", "MetadataUpdateTask", "DecommissionTask"}

NotificationTasks ==
    {"SuccessNotification", "FailureNotification", "SafetyViolationNotification"}

SucceedStates == {"TerminationSucceeded"}

FailStates == {"TerminationFailed", "SafetyViolation"}

NotificationSubject_AlwaysSuccess(task) == "Account Termination Completed Successfully"

NotificationSubject(task) ==
    CASE task = "SuccessNotification" -> "Account Termination Completed Successfully"
      [] task = "FailureNotification" -> "Account Termination Failed"
      [] task = "SafetyViolationNotification" -> "Account Termination - Safety Violation"

\* Retrier that LambdaInvoke installs first when retryOnServiceExceptions is true.
DefaultRetrier ==
    [ errors |-> {"Lambda.ClientExecutionTimeoutException", "Lambda.ServiceException",
                  "Lambda.AWSLambdaException", "Lambda.SdkClientException"},
      interval |-> 2,
      maxAttempts |-> 6,
      backoffRate |-> 2 ]

retryPolicy_RetryTimeout ==
    [ errors |-> {"Lambda.ServiceException", "Lambda.AWSLambdaException",
                  "Lambda.SdkClientException", "States.Timeout"},
      intervalSeconds |-> 2,
      maxAttempts |-> 3,
      backoffRate |-> 2 ]

retryPolicy ==
    [ errors |-> {"Lambda.ServiceException", "Lambda.AWSLambdaException",
                  "Lambda.SdkClientException"},
      intervalSeconds |-> 2,
      maxAttempts |-> 3,
      backoffRate |-> 2 ]

\* IntervalSeconds of a retrier given no interval
DefaultIntervalSeconds == 1

\* addRetry reads the interval property of its argument; an object without
\* one (retryPolicy names it intervalSeconds) gets the default.
IntervalSeconds(retrier) ==
    IF "interval" \in DOMAIN retrier THEN retrier.interval ELSE DefaultIntervalSeconds

RECURSIVE Power(_, _)
Power(b, n) == IF n = 0 THEN 1 ELSE b * Power(b, n - 1)

\* Seconds waited before retry number k (1, 2, ...) under a retrier.
RetryDelay(retrier, k) == IntervalSeconds(retrier) * Power(retrier.backoffRate, k - 1)

Retriers_UserFirst(task) == << retryPolicy, DefaultRetrier >>

\* The Retry array of a task, in the order the retriers were added.
Retriers(task) == << DefaultRetrier, retryPolicy >>

Catchers_ContinueOnError(task) ==
    << [ errors |-> {"States.ALL"},
         next |-> IF task = "MetadataUpdateTask" THEN "DecommissionTask"
                  ELSE "TerminationFailed" ] >>

\* The Catch array of a task: addCatch(failureState, {errors: ['States.ALL'], resultPath: '$.error'})
Catchers(task) ==
    << [ errors |-> {"States.ALL"}, next |-> "TerminationFailed" ] >>

NextState_BypassGate(s) ==
    CASE s = "PreCheckTask" -> "AccountManagementTask"
      [] s = "AccountManagementTask" -> "MetadataUpdateTask"
      [] s = "MetadataUpdateTask" -> "DecommissionTask"
      [] s = "DecommissionTask" -> "SuccessNotification"
      [] s = "SuccessNotification" -> "TerminationSucceeded"
      [] s = "SafetyViolationNotification" -> "SafetyViolation"

\* The .next() chain.
NextState(s) ==
    CASE s = "PreCheckTask" -> "SafetyCheck"
      [] s = "AccountManagementTask" -> "MetadataUpdateTask"
      [] s = "MetadataUpdateTask" -> "DecommissionTask"
      [] s = "DecommissionTask" -> "SuccessNotification"
      [] s = "SuccessNotification" -> "TerminationSucceeded"
      [] s = "SafetyViolationNotification" -> "SafetyViolation"

SafetyCheckNext_ByResources(d) ==
    IF "safeToTerminate" \notin DOMAIN d THEN "States.Runtime"
    ELSE IF d.resourcesFound.ebsVolumes > 0 \/ d.resourcesFound.rdsInstances > 0
         THEN "SafetyViolationNotification"
    ELSE "AccountManagementTask"

\* The SafetyCheck choice: when booleanEquals('$.safeToTerminate', false), otherwise.
\* A missing path makes the Choice state fail with States.Runtime.
SafetyCheckNext(d) ==
    IF "safeToTerminate" \notin DOMAIN d THEN "States.Runtime"
    ELSE IF d.safeToTerminate = FALSE THEN "SafetyViolationNotification"
    ELSE "AccountManagementTask"

\* ------------------------------------------------------------------------
\* Amazon States Language error handling
\* ------------------------------------------------------------------------

\* Errors a Lambda task can report: service-side and SDK errors, the task
\* timeout, and errors raised by the handler itself.
ErrorNames ==
    {"Lambda.ServiceException", "Lambda.AWSLambdaException", "Lambda.SdkClientException",
     "Lambda.ClientExecutionTimeoutException", "States.Timeout",
     "ValidationError", "AccessDeniedException"}

ErrorMatches_Always(errors, err) == TRUE

ErrorMatches(errors, err) == err \in errors \/ "States.ALL" \in errors

\* Index of the first retrier whose ErrorEquals names the error, 0 when none does.
MatchingRetrier(task, err) ==
    LET idx == { i \in 1..Len(Retriers(task)) : ErrorMatches(Retriers(task)[i].errors, err) }
    IN  IF idx = {} THEN 0 ELSE CHOOSE i \in idx : \A j \in idx : i <= j

MatchingCatcher(task, err) ==
    LET idx == { i \in 1..Len(Catchers(task)) : ErrorMatches(Catchers(task)[i].errors, err) }
    IN  IF idx = {} THEN 0 ELSE CHOOSE i \in idx : \A j \in idx : i <= j

\* Errors some retrier of the task names (transient), and the others (permanent).
RetryableErrors(task) ==
    ErrorNames \cap UNION { Retriers(task)[i].errors : i \in 1..Len(Retriers(task)) }

PermanentErrors(task) == ErrorNames \ RetryableErrors(task)

StatusOnEnter_NeverEnds(s) == "RUNNING"

StatusOnEnter(s) ==
    IF s \in SucceedStates THEN "SUCCEEDED"
    ELSE IF s \in FailStates THEN "FAILED"
    ELSE "RUNNING"

\* ------------------------------------------------------------------------
\* Lambda handlers (payloads by declared interface)
\* ------------------------------------------------------------------------

\* Reference policy: unsafe when any critical-resource category has a nonzero count.
IsSafe(ebs, rds) == ebs = 0 /\ rds = 0

PreCheckPayloads(event) ==
    IF "accountId" \in DOMAIN event /\ IsWellFormedAccountId(event.accountId)
    THEN { [ accountId |-> event.accountId,
             safeToTerminate |-> IsSafe(ebs, rds),
             resourcesFound |-> [ebsVolumes |-> ebs, rdsInstances |-> rds] ]
           : ebs \in 0..MaxResources, rds \in 0..MaxResources }
    ELSE {}

\* Every value of the PreCheckOutput interface for the event's account,
\* whatever relation between the flag and the counts.
PreCheckOutputs(event) ==
    IF "accountId" \in DOMAIN event
    THEN { [ accountId |-> event.accountId,
             safeToTerminate |-> safe,
             resourcesFound |-> [ebsVolumes |-> ebs, rdsInstances |-> rds] ]
           : safe \in BOOLEAN, ebs \in 0..MaxResources, rds \in 0..MaxResources }
    ELSE {}

AccountManagementPayloads(event) ==
    IF "accountId" \in DOMAIN event
    THEN { [ accountId |-> event.accountId, suspended |-> TRUE,
             closureInitiated |-> TRUE, organizationalUnit |-> "Suspended" ] }
    ELSE {}

MetadataUpdatePayloads(event) ==
    IF "accountId" \in DOMAIN event
    THEN { [ accountId |-> event.accountId, recordUpdated |-> TRUE ] }
    ELSE {}

DecommissionPayloads(event) ==
    IF "accountId" \in DOMAIN event
    THEN { [ accountId |-> event.accountId, vendorsProcessed |-> {"Prisma"},
             results |-> [Prisma |-> [success |-> ok]] ] : ok \in BOOLEAN }
    ELSE {}

LambdaPayloads(task, event) ==
    CASE task = "PreCheckTask" -> PreCheckPayloads(event)
      [] task = "AccountManagementTask" -> AccountManagementPayloads(event)
      [] task = "MetadataUpdateTask" -> MetadataUpdatePayloads(event)
      [] task = "DecommissionTask" -> DecommissionPayloads(event)

\* ------------------------------------------------------------------------
\* Metadata store (written by the MetadataUpdate handler only: it is the one
\* function granted dynamodb:PutItem / UpdateItem)
\* ------------------------------------------------------------------------

\* reservedConcurrentExecutions of every function of the stack
ReservedConcurrentExecutions == 10

\* The error of an Invoke call rejected for lack of concurrency.
ThrottlingError == "Lambda.TooManyRequestsException"

\* Other executions considered: as many as use up one function's concurrency.
MaxOtherExecutions == ReservedConcurrentExecutions

RECURSIVE SumOver(_, _)
SumOver(f, S) ==
    IF S = {} THEN 0
    ELSE LET x == CHOOSE y \in S : TRUE IN f[x] + SumOver(f, S \ {x})

NoRecord == [exists |-> FALSE]

\* The patch the MetadataUpdate handler writes for its event.
MetadataPatch(event) ==
    [f \in {"accountId", "status"} \cup (DOMAIN event \cap {"organizationalUnit", "executionArn"}) |->
        IF f = "status" THEN "TERMINATED" ELSE event[f]]

Upsert_ResetCreatedAt(record, patch, now) ==
    [f \in DOMAIN patch \cup {"exists", "createdAt", "updatedAt"} |->
        CASE f = "exists" -> TRUE
          [] f \in {"createdAt", "updatedAt"} -> now
          [] OTHER -> patch[f]]

\* upsert(accountId, patch): per-field last-write-wins; createdAt is fixed at
\* the first write, updatedAt refreshed on every write.
Upsert(record, patch, now) ==
    [f \in DOMAIN record \cup DOMAIN patch \cup {"exists", "createdAt", "updatedAt"} |->
        CASE f = "exists" -> TRUE
          [] f = "updatedAt" -> now
          [] f = "createdAt" -> IF record.exists THEN record.createdAt ELSE now
          [] f \in DOMAIN patch -> patch[f]
          [] OTHER -> record[f]]

WritesMetadata_EveryStage(task) == TRUE

\* The functions granted dynamodb:PutItem / UpdateItem on the table.
WritesMetadata(task) == task = "MetadataUpdateTask"

\* A handler invocation that ends in an error may or may not have written.
WroteBeforeError(task) == IF WritesMetadata(task) THEN BOOLEAN ELSE {FALSE}

\* ------------------------------------------------------------------------
\* deploy.sh
\* ------------------------------------------------------------------------

\* The environment variables the script and the CDK app read; "" stands for
\* unset or empty, which neither [[ -z ]] nor !value tells apart.
EnvVars == { "VPC_ID", "DYNAMODB_TABLE_NAME", "MANAGEMENT_ACCOUNT_ROLE_ARN",
             "SUSPENDED_OU_ID", "NOTIFICATION_EMAIL" }

EnvValues == { "", "set" }

NotExited == -1

\* main: the functions in the order it calls them
MainSteps_DeployFirst ==
    << "check_aws_cli", "check_cdk", "validate_environment", "deploy_stack",
       "build_project", "run_tests", "synthesize_template",
       "post_deployment_instructions" >>

MainSteps ==
    << "check_aws_cli", "check_cdk", "validate_environment", "build_project",
       "run_tests", "synthesize_template", "deploy_stack",
       "post_deployment_instructions" >>

StepAfter(step) ==
    LET i == CHOOSE k \in 1..Len(MainSteps) : MainSteps[k] = step
    IN  IF i = Len(MainSteps) THEN "exited" ELSE MainSteps[i + 1]

\* The CDK app the cdk commands run: it throws unless VPC_ID and
\* DYNAMODB_TABLE_NAME are set.
AppSynthesizes(environment) ==
    /\ environment["VPC_ID"] # ""
    /\ environment["DYNAMODB_TABLE_NAME"] # ""

\* The variables validate_environment prints a warning for.
WarnedVars == { "MANAGEMENT_ACCOUNT_ROLE_ARN", "SUSPENDED_OU_ID", "NOTIFICATION_EMAIL",
                "VPC_ID" }

\* What the operator may type at the prompt (one character, or just Enter).
Replies == { "y", "Y", "n", "" }

\* Exit statuses of a failed aws command.
AwsCliFailureCodes == { 1, 255 }

NotAsked == "not-asked"

\* [[ $REPLY =~ ^[Yy]$ ]]
Confirms(answer) == answer \in { "y", "Y" }

\* ------------------------------------------------------------------------
\* config.ts: AwsConfigManager
\* ------------------------------------------------------------------------

\* Calls of getInstance() considered
MaxCalls == 3

Undefined == "undefined"

\* AwsConfigManager.instance before the first getInstance()
NoInstance == [id |-> 0]

\* No validateConfig() result yet
NotCalled == << >>

ConfigEnvVars == { "AWS_REGION", "MANAGEMENT_ACCOUNT_ROLE_ARN", "SUSPENDED_OU_ID",
                   "DYNAMODB_TABLE_NAME" }

\* Values a variable of process.env or a field of the configuration may hold.
StringValues == { "", "configured" }

\* JavaScript truthiness of a string or undefined
Truthy(x) == x \notin { "", Undefined }

\* a || b
OrElse(a, b) == IF Truthy(a) THEN a ELSE b

\* a && b
AndAlso(a, b) == IF Truthy(a) THEN b ELSE a

\* The private constructor reads process.env.
NewConfig(environment) ==
    [ region |-> OrElse(environment["AWS_REGION"], "us-east-1"),
      managementAccountRoleArn |-> OrElse(environment["MANAGEMENT_ACCOUNT_ROLE_ARN"], ""),
      suspendedOuId |-> OrElse(environment["SUSPENDED_OU_ID"], ""),
      dynamoDbTableName |-> OrElse(environment["DYNAMODB_TABLE_NAME"],
                                   "account-termination-metadata") ]

ConfigFields == { "region", "managementAccountRoleArn", "suspendedOuId", "dynamoDbTableName" }

NeedsInstance_Always(current) == TRUE

\* if (!AwsConfigManager.instance)
NeedsInstance(current) == current = NoInstance

validateConfig_RegionOnly(config) == Truthy(config.region)

\* !!(region && managementAccountRoleArn && suspendedOuId && dynamoDbTableName)
validateConfig(config) ==
    Truthy(AndAlso(AndAlso(AndAlso(config.region, config.managementAccountRoleArn),
                           config.suspendedOuId),
                   config.dynamoDbTableName))

\* ------------------------------------------------------------------------
\* config.ts: getVpcConfig
\* ------------------------------------------------------------------------

\* Longest value of an environment variable considered
MaxLen == 3

\* Characters of a value: of an id, the separator, whitespace
Chars == { "s", ",", " " }

\* Strings are sequences of characters.
Strings == UNION { [1..n -> Chars] : n \in 0..MaxLen }

VpcEnvVars == { "PRIVATE_SUBNET_IDS", "SECURITY_GROUP_IDS" }

\* process.env.X of a variable that is not set
Unset == [set |-> FALSE]

\* No getVpcConfig() call yet
NoCall == [called |-> FALSE]

\* process.env.X || ''
ValueOrEmpty(x) == IF x.set /\ x.value # << >> THEN x.value ELSE << >>

\* String.prototype.split(','): the pieces between the separators; the
\* empty string gives one empty piece.
RECURSIVE Split(_)
Split(str) ==
    IF \A i \in 1..Len(str) : str[i] # ","
    THEN << str >>
    ELSE LET k == CHOOSE i \in 1..Len(str) :
                    str[i] = "," /\ \A j \in 1..(i - 1) : str[j] # ","
         IN  << SubSeq(str, 1, k - 1) >> \o Split(SubSeq(str, k + 1, Len(str)))

\* String.prototype.trim()
RECURSIVE Trim(_)
Trim(str) ==
    IF str = << >> THEN str
    ELSE IF Head(str) = " " THEN Trim(Tail(str))
    ELSE IF str[Len(str)] = " " THEN Trim(SubSeq(str, 1, Len(str) - 1))
    ELSE str

KeepsEntry_NonEmpty(id) == id # << >>

\* The filter callback: id => id.trim(), kept when truthy
KeepsEntry(id) == Trim(id) # << >>

\* (process.env.X || '').split(',').filter(id => id.trim())
IdList(x) == SelectSeq(Split(ValueOrEmpty(x)), KeepsEntry)

\* ------------------------------------------------------------------------
\* config.ts: Logger
\* ------------------------------------------------------------------------

\* Calls of updateContext considered
MaxUpdates == 2

LogFields == { "correlationId", "stage", "executionArn" }

\* Contexts handed to createLogger: correlationId is required.
InitialContexts ==
    { [correlationId |-> "old"], [correlationId |-> "old", stage |-> "old"] }

\* Partial<LogContext>: any fields, each with a value or undefined
Updates == UNION { [fields -> {"new", Undefined}] : fields \in SUBSET LogFields }

NoLogger == [created |-> FALSE]

NoEntry == [logged |-> FALSE]

MergeContext_Replace(context, updates) == updates

\* { ...this.context, ...updates }
MergeContext(context, updates) ==
    [ f \in DOMAIN context \cup DOMAIN updates |->
        IF f \in DOMAIN updates THEN updates[f] ELSE context[f] ]

\* JSON.stringify of the context: properties whose value is undefined are
\* left out.
JsonContext(context) ==
    [ f \in { g \in DOMAIN context : context[g] # Undefined } |-> context[f] ]

\* ------------------------------------------------------------------------
\* State
\* ------------------------------------------------------------------------

VARIABLES
    status,        \* execution status: NOT_STARTED, RUNNING, SUCCEEDED, FAILED
    state,         \* the state of the machine the execution is in (or ended in)
    input,         \* accountId the execution was started with
    data,          \* the state data ($) flowing through the execution
    inProgress,    \* Lambda tasks invoked and not yet returned
    attempts,      \* retries consumed per retrier in the current task state
    delays,        \* seconds waited before each retry of the current task state
    invocations,   \* number of invocations of each Lambda task
    lastOutcome,   \* outcome of the most recent completed invocation
    stageResults,  \* per task: payload or final error, as in the execution history
    notifications, \* notifications published, in order
    metadata,      \* the metadata store: accountId -> AccountMetadata record
    clock,         \* logical time of the metadata store's writes
    otherInFlight, \* per function: invocations in flight for other executions
    pc,            \* deploy.sh: the function main is about to call
    env,           \* deploy.sh: the environment variables of the run
    exitCode,      \* deploy.sh: exit status, NotExited while running
    steps,         \* deploy.sh: the functions that have returned, in order
    deployed,      \* deploy.sh: cdk deploy was executed
    healthy,       \* deploy.sh: every tool has worked and nobody interrupted
    reply,         \* deploy.sh: REPLY, what the operator typed at the prompt
    warnings,      \* deploy.sh: variables validate_environment warned about
    processEnv,    \* config.ts: process.env
    instance,      \* config.ts: AwsConfigManager.instance
    constructed,   \* config.ts: number of runs of the private constructor
    returned,      \* config.ts: the instances getInstance() returned, in order
    validated,     \* config.ts: result of the latest validateConfig()
    vpcEnv,        \* config.ts: PRIVATE_SUBNET_IDS and SECURITY_GROUP_IDS of process.env
    vpcConfig,     \* config.ts: the result of getVpcConfig()
    logger,        \* config.ts: the Logger, its constructor argument and its context
    applied,       \* config.ts: the updates passed to updateContext, in order
    lastEntry      \* config.ts: the latest entry written by log

wfVars == << status, state, input, data, inProgress, attempts, delays, invocations,
             lastOutcome, stageResults, notifications, metadata, clock >>

deployVars == << pc, env, exitCode, steps, deployed, healthy, reply, warnings >>

configVars == << processEnv, instance, constructed, returned, validated >>

vpcVars == << vpcEnv, vpcConfig >>

loggerVars == << logger, applied, lastEntry >>

utilVars == << vpcVars, loggerVars >>

vars == << wfVars, otherInFlight, deployVars, configVars, utilVars >>

NoResult == [recorded |-> FALSE]

NoAttempts == << 0, 0 >>

\* The state before any execution of the given set is started.
InitWith(execs) ==
    /\ status = [e \in execs |-> "NOT_STARTED"]
    /\ state = [e \in execs |-> "None"]
    /\ input = [e \in execs |-> << >>]
    /\ data = [e \in execs |-> << >>]
    /\ inProgress = [e \in execs |-> {}]
    /\ attempts = [e \in execs |-> NoAttempts]
    /\ delays = [e \in execs |-> << >>]
    /\ invocations = [e \in execs |-> [t \in LambdaTasks |-> 0]]
    /\ lastOutcome = [e \in execs |-> "None"]
    /\ stageResults = [e \in execs |-> [t \in LambdaTasks |-> NoResult]]
    /\ notifications = [e \in execs |-> << >>]
    /\ metadata = [id \in AccountIds |-> NoRecord]
    /\ clock = 0
    /\ otherInFlight = [t \in LambdaTasks |-> 0]
    /\ pc = "not_run"
    /\ env = [v \in EnvVars |-> ""]
    /\ exitCode = NotExited
    /\ steps = << >>
    /\ deployed = FALSE
    /\ healthy = TRUE
    /\ reply = NotAsked
    /\ warnings = {}
    /\ processEnv = [v \in ConfigEnvVars |-> Undefined]
    /\ instance = NoInstance
    /\ constructed = 0
    /\ returned = << >>
    /\ validated = NotCalled
    /\ vpcEnv = [v \in VpcEnvVars |-> Unset]
    /\ vpcConfig = NoCall
    /\ logger = NoLogger
    /\ applied = << >>
    /\ lastEntry = NoEntry

Init == InitWith(Execs)

Running_IgnoreEnd(e) == status[e] # "NOT_STARTED"

\* An execution takes steps only until a Succeed or Fail state, or an
\* uncaught error, ends it.
Running(e) == status[e] = "RUNNING"

\* ------------------------------------------------------------------------
\* Actions
\* ------------------------------------------------------------------------

TaskOutput_MergeIntoInput(d, payload) ==
    [f \in DOMAIN d \cup DOMAIN payload |->
        IF f \in DOMAIN payload THEN payload[f] ELSE d[f]]

\* outputPath '$.Payload': the payload alone becomes the state data; the
\* task's input is dropped.
TaskOutput(d, payload) == payload

\* Payloads the function invoked by the current state can return.
ReturnablePayloads(e) ==
    IF state[e] \in LambdaTasks THEN LambdaPayloads(state[e], data[e]) ELSE {}

\* The MetadataUpdate handler upserts its patch under the event's accountId.
WriteMetadata(event) ==
    /\ clock' = clock + 1
    /\ metadata' = [metadata EXCEPT ![event.accountId] =
                        Upsert(@, MetadataPatch(event), clock + 1)]

\* StartExecution with {"accountId": id}; the definition starts at preCheckTask.
StartExecution(e, id) ==
    /\ status[e] = "NOT_STARTED"
    /\ status' = [status EXCEPT ![e] = "RUNNING"]
    /\ state' = [state EXCEPT ![e] = "PreCheckTask"]
    /\ input' = [input EXCEPT ![e] = id]
    /\ data' = [data EXCEPT ![e] = [accountId |-> id]]
    /\ UNCHANGED << inProgress, attempts, delays, invocations, lastOutcome, stageResults,
                    notifications, metadata, clock, otherInFlight >>
    /\ UNCHANGED << deployVars, configVars, utilVars >>

\* Invocations of function t in flight, over all executions.
InFlight(t) ==
    otherInFlight[t] + Cardinality({ e \in DOMAIN inProgress : t \in inProgress[e] })

OtherInvocations == SumOver(otherInFlight, LambdaTasks)

SlotAvailable_OneAtATime(t) == InFlight(t) < 1

SlotAvailable(t) == InFlight(t) < ReservedConcurrentExecutions

\* A task's error: the first retrier naming the error retries while it has
\* attempts left; otherwise the first catcher naming it takes over;
\* otherwise the execution fails.
HandleError(e, err) ==
    /\ lastOutcome' = [lastOutcome EXCEPT ![e] = err]
    /\ LET task == state[e]
           r == MatchingRetrier(task, err)
           c == MatchingCatcher(task, err)
       IN  IF r # 0 /\ attempts[e][r] < Retriers(task)[r].maxAttempts
           THEN /\ attempts' = [attempts EXCEPT ![e][r] = @ + 1]
                /\ delays' = [delays EXCEPT ![e] =
                                  Append(@, RetryDelay(Retriers(task)[r], attempts[e][r] + 1))]
                /\ UNCHANGED << status, state, data, stageResults >>
           ELSE /\ stageResults' = [stageResults EXCEPT ![e][task] =
                                        [recorded |-> TRUE, ok |-> FALSE, error |-> err]]
                /\ UNCHANGED << attempts, delays >>
                /\ IF c # 0
                   THEN /\ state' = [state EXCEPT ![e] = Catchers(task)[c].next]
                        /\ status' = [status EXCEPT ![e] =
                                          StatusOnEnter(Catchers(task)[c].next)]
                        /\ data' = [data EXCEPT ![e] =
                                        [f \in DOMAIN data[e] \cup {"error"} |->
                                            IF f = "error" THEN [Error |-> err]
                                            ELSE data[e][f]]]
                   ELSE /\ status' = [status EXCEPT ![e] = "FAILED"]
                        /\ UNCHANGED << state, data >>

\* A LambdaInvoke task calls its function with the state data.
InvokeTask(e) ==
    /\ Running(e)
    /\ state[e] \in LambdaTasks
    /\ inProgress[e] = {}
    /\ SlotAvailable(state[e])
    /\ inProgress' = [inProgress EXCEPT ![e] = {state[e]}]
    /\ invocations' = [invocations EXCEPT ![e][state[e]] = @ + 1]
    /\ UNCHANGED << status, state, input, data, attempts, delays, lastOutcome, stageResults,
                    notifications, metadata, clock, otherInFlight >>
    /\ UNCHANGED << deployVars, configVars, utilVars >>

\* The function returns a payload: outputPath '$.Payload' makes it the state
\* data and the chain moves to the next state.
TaskReturns(e, payload) ==
    /\ Running(e)
    /\ state[e] \in inProgress[e]
    /\ inProgress' = [inProgress EXCEPT ![e] = {}]
    /\ lastOutcome' = [lastOutcome EXCEPT ![e] = "Success"]
    /\ stageResults' = [stageResults EXCEPT ![e][state[e]] =
                            [recorded |-> TRUE, ok |-> TRUE, payload |-> payload]]
    /\ data' = [data EXCEPT ![e] = TaskOutput(data[e], payload)]
    /\ attempts' = [attempts EXCEPT ![e] = NoAttempts]
    /\ delays' = [delays EXCEPT ![e] = << >>]
    /\ state' = [state EXCEPT ![e] = NextState(state[e])]
    /\ status' = [status EXCEPT ![e] = StatusOnEnter(NextState(state[e]))]
    /\ IF WritesMetadata(state[e])
       THEN WriteMetadata(data[e])
       ELSE UNCHANGED << metadata, clock >>
    /\ UNCHANGED << input, invocations, notifications, otherInFlight >>
    /\ UNCHANGED << deployVars, configVars, utilVars >>

\* The handler succeeds with one of the payloads it can produce.
TaskSucceeds(e, payload) ==
    /\ payload \in ReturnablePayloads(e)
    /\ TaskReturns(e, payload)

\* The PreCheck function returns any value of its output interface.
PreCheckReturns(e, output) ==
    /\ state[e] = "PreCheckTask"
    /\ output \in PreCheckOutputs(data[e])
    /\ TaskReturns(e, output)

\* The invocation ends in an error: the first retrier naming the error
\* retries while it has attempts left; otherwise the first catcher naming it
\* takes over; otherwise the execution fails.
TaskFails(e, err) ==
    /\ Running(e)
    /\ state[e] \in inProgress[e]
    /\ err \in ErrorNames
    /\ inProgress' = [inProgress EXCEPT ![e] = {}]
    /\ HandleError(e, err)
    /\ \E wrote \in WroteBeforeError(state[e]) :
           IF wrote THEN WriteMetadata(data[e]) ELSE UNCHANGED << metadata, clock >>
    /\ UNCHANGED << input, invocations, notifications, otherInFlight >>
    /\ UNCHANGED << deployVars, configVars, utilVars >>

\* The function's reserved concurrency is used up by other executions: the
\* Invoke call is rejected with the throttling error and the handler does
\* not run.
InvokeThrottled(e) ==
    /\ Running(e)
    /\ state[e] \in LambdaTasks
    /\ inProgress[e] = {}
    /\ ~SlotAvailable(state[e])
    /\ invocations' = [invocations EXCEPT ![e][state[e]] = @ + 1]
    /\ HandleError(e, ThrottlingError)
    /\ UNCHANGED << input, inProgress, notifications, metadata, clock, otherInFlight >>
    /\ UNCHANGED << deployVars, configVars, utilVars >>

\* Another execution's task invokes the function, taking one of its slots.
OtherInvokes(t) ==
    /\ InFlight(t) < ReservedConcurrentExecutions
    /\ OtherInvocations < MaxOtherExecutions
    /\ otherInFlight' = [otherInFlight EXCEPT ![t] = @ + 1]
    /\ UNCHANGED wfVars
    /\ UNCHANGED << deployVars, configVars, utilVars >>

\* Another execution's invocation returns, freeing its slot.
OtherReturns(t) ==
    /\ otherInFlight[t] > 0
    /\ otherInFlight' = [otherInFlight EXCEPT ![t] = @ - 1]
    /\ UNCHANGED wfVars
    /\ UNCHANGED << deployVars, configVars, utilVars >>

\* The SafetyCheck choice state.
EvaluateSafetyCheck(e) ==
    /\ Running(e)
    /\ state[e] = "SafetyCheck"
    /\ LET next == SafetyCheckNext(data[e])
       IN  IF next = "States.Runtime"
           THEN /\ status' = [status EXCEPT ![e] = "FAILED"]
                /\ UNCHANGED state
           ELSE /\ state' = [state EXCEPT ![e] = next]
                /\ status' = [status EXCEPT ![e] = StatusOnEnter(next)]
    /\ UNCHANGED << input, data, inProgress, attempts, delays, invocations, lastOutcome,
                    stageResults, notifications, metadata, clock, otherInFlight >>
    /\ UNCHANGED << deployVars, configVars, utilVars >>

\* An SnsPublish task publishes the state data ($) under its subject; its
\* result replaces the state data and the chain enters the next state.
PublishSucceeds(e) ==
    /\ Running(e)
    /\ state[e] \in NotificationTasks
    /\ notifications' = [notifications EXCEPT ![e] =
                            Append(@, [subject |-> NotificationSubject(state[e]),
                                       message |-> data[e]])]
    /\ data' = [data EXCEPT ![e] = [MessageId |-> "message-id"]]
    /\ state' = [state EXCEPT ![e] = NextState(state[e])]
    /\ status' = [status EXCEPT ![e] = StatusOnEnter(NextState(state[e]))]
    /\ UNCHANGED << input, inProgress, attempts, delays, invocations, lastOutcome, stageResults,
                    metadata, clock, otherInFlight >>
    /\ UNCHANGED << deployVars, configVars, utilVars >>

\* The publish call fails: the SnsPublish tasks have no Retry and no Catch,
\* so the error ends the execution.
PublishFails(e) ==
    /\ Running(e)
    /\ state[e] \in NotificationTasks
    /\ status' = [status EXCEPT ![e] = "FAILED"]
    /\ UNCHANGED << state, input, data, inProgress, attempts, delays, invocations, lastOutcome,
                    stageResults, notifications, metadata, clock, otherInFlight >>
    /\ UNCHANGED << deployVars, configVars, utilVars >>

Next ==
    \E e \in Execs :
        \/ \E id \in AccountIds : StartExecution(e, id)
        \/ InvokeTask(e)
        \/ \E payload \in ReturnablePayloads(e) : TaskSucceeds(e, payload)
        \/ \E err \in ErrorNames : TaskFails(e, err)
        \/ EvaluateSafetyCheck(e)
        \/ PublishSucceeds(e)
        \/ PublishFails(e)

Spec == Init /\ [][Next]_vars

\* ------------------------------------------------------------------------
\* deploy.sh: one action per function of the script
\* ------------------------------------------------------------------------

\* The function returns and main calls the next one.
Return(step, ok) ==
    /\ pc' = StepAfter(step)
    /\ steps' = Append(steps, step)
    /\ healthy' = (healthy /\ ok)
    /\ exitCode' = IF StepAfter(step) = "exited" THEN 0 ELSE exitCode

\* exit n
Exit(n, ok) ==
    /\ pc' = "exited"
    /\ exitCode' = n
    /\ healthy' = (healthy /\ ok)
    /\ UNCHANGED steps

RunDeploy(environment) ==
    /\ pc = "not_run"
    /\ pc' = MainSteps[1]
    /\ env' = environment
    /\ UNCHANGED << exitCode, steps, deployed, healthy, reply, warnings, wfVars, otherInFlight, configVars, utilVars >>

check_aws_cli(installed, credentials) ==
    /\ pc = "check_aws_cli"
    /\ IF installed /\ credentials
       THEN Return("check_aws_cli", TRUE)
       ELSE Exit(1, FALSE)
    /\ UNCHANGED << env, deployed, reply, warnings, wfVars, otherInFlight, configVars, utilVars >>

\* cdk bootstrap runs when the CDKToolkit stack is missing; under set -e its
\* failure ends the script.
check_cdk(installed, bootstrapped, bootstrapOk) ==
    /\ pc = "check_cdk"
    /\ IF installed /\ (bootstrapped \/ bootstrapOk)
       THEN Return("check_cdk", TRUE)
       ELSE Exit(1, FALSE)
    /\ UNCHANGED << env, deployed, reply, warnings, wfVars, otherInFlight, configVars, utilVars >>

\* MISSING_VARS is never appended to: the function only warns.
validate_environment ==
    /\ pc = "validate_environment"
    /\ warnings' = { v \in WarnedVars : env[v] = "" }
    /\ Return("validate_environment", TRUE)
    /\ UNCHANGED << env, deployed, reply, wfVars, otherInFlight, configVars, utilVars >>

build_project(ok) ==
    /\ pc = "build_project"
    /\ IF ok THEN Return("build_project", TRUE) ELSE Exit(1, FALSE)
    /\ UNCHANGED << env, deployed, reply, warnings, wfVars, otherInFlight, configVars, utilVars >>

run_tests(ok) ==
    /\ pc = "run_tests"
    /\ IF ok THEN Return("run_tests", TRUE) ELSE Exit(1, FALSE)
    /\ UNCHANGED << env, deployed, reply, warnings, wfVars, otherInFlight, configVars, utilVars >>

\* cdk synth runs the app; toolOk is everything else the command needs.
synthesize_template(toolOk) ==
    /\ pc = "synthesize_template"
    /\ IF toolOk /\ AppSynthesizes(env)
       THEN Return("synthesize_template", TRUE)
       ELSE Exit(1, toolOk)
    /\ UNCHANGED << env, deployed, reply, warnings, wfVars, otherInFlight, configVars, utilVars >>

\* The prompt, then cdk deploy (which runs the app again), then the listing
\* of the stack's outputs, whose failure ends the script under set -e.
deploy_stack(answer, toolOk, outputsOk) ==
    /\ pc = "deploy_stack"
    /\ reply' = answer
    /\ IF ~Confirms(answer)
       THEN /\ Exit(0, TRUE)
            /\ UNCHANGED deployed
       ELSE /\ deployed' = TRUE
            /\ IF toolOk /\ AppSynthesizes(env)
               THEN IF outputsOk
                    THEN Return("deploy_stack", TRUE)
                    ELSE \E n \in AwsCliFailureCodes : Exit(n, FALSE)
               ELSE Exit(1, toolOk)
    /\ UNCHANGED << env, warnings, wfVars, otherInFlight, configVars, utilVars >>

post_deployment_instructions ==
    /\ pc = "post_deployment_instructions"
    /\ Return("post_deployment_instructions", TRUE)
    /\ UNCHANGED << env, deployed, reply, warnings, wfVars, otherInFlight, configVars, utilVars >>

\* trap ... INT TERM: an interrupted run exits with status 1.
Interrupt ==
    /\ pc \notin { "not_run", "exited" }
    /\ Exit(1, FALSE)
    /\ UNCHANGED << env, deployed, reply, warnings, wfVars, otherInFlight, configVars, utilVars >>

DeployNext ==
    \/ \E environment \in [EnvVars -> EnvValues] : RunDeploy(environment)
    \/ \E installed, credentials \in BOOLEAN : check_aws_cli(installed, credentials)
    \/ \E installed, bootstrapped, bootstrapOk \in BOOLEAN :
           check_cdk(installed, bootstrapped, bootstrapOk)
    \/ validate_environment
    \/ \E ok \in BOOLEAN : build_project(ok)
    \/ \E ok \in BOOLEAN : run_tests(ok)
    \/ \E toolOk \in BOOLEAN : synthesize_template(toolOk)
    \/ \E answer \in Replies, toolOk, outputsOk \in BOOLEAN :
           deploy_stack(answer, toolOk, outputsOk)
    \/ post_deployment_instructions
    \/ Interrupt

DeploySpec == Init /\ [][DeployNext]_vars

\* ------------------------------------------------------------------------
\* config.ts: the calls a process makes
\* ------------------------------------------------------------------------

\* process.env.X = value, or delete process.env.X
SetEnv(v, x) ==
    /\ processEnv[v] # x
    /\ processEnv' = [processEnv EXCEPT ![v] = x]
    /\ UNCHANGED << instance, constructed, returned, validated, wfVars, otherInFlight,
                    deployVars, utilVars >>

\* AwsConfigManager.getInstance()
getInstance ==
    /\ Len(returned) < MaxCalls
    /\ IF NeedsInstance(instance)
       THEN /\ instance' = [id |-> constructed + 1, config |-> NewConfig(processEnv)]
            /\ constructed' = constructed + 1
            /\ returned' = Append(returned, constructed + 1)
       ELSE /\ returned' = Append(returned, instance.id)
            /\ UNCHANGED << instance, constructed >>
    /\ UNCHANGED << processEnv, validated, wfVars, otherInFlight, deployVars, utilVars >>

\* getConfig() hands out the held object; the caller assigns one of its
\* fields.
AssignConfigField(f, x) ==
    /\ instance # NoInstance
    /\ instance.config[f] # x
    /\ instance' = [instance EXCEPT !.config[f] = x]
    /\ validated' = NotCalled
    /\ UNCHANGED << processEnv, constructed, returned, wfVars, otherInFlight, deployVars, utilVars >>

\* instance.validateConfig()
CallValidateConfig ==
    /\ instance # NoInstance
    /\ validated' = << validateConfig(instance.config) >>
    /\ UNCHANGED << processEnv, instance, constructed, returned, wfVars, otherInFlight,
                    deployVars, utilVars >>

ConfigNext ==
    \/ \E v \in ConfigEnvVars, x \in StringValues \cup {Undefined} : SetEnv(v, x)
    \/ getInstance
    \/ \E f \in ConfigFields, x \in StringValues : AssignConfigField(f, x)
    \/ CallValidateConfig

ConfigSpec == Init /\ [][ConfigNext]_vars

\* Every invocation and every publish returns an outcome, and the state
\* machine takes the transition that follows.
FairSpec ==
    /\ Spec
    /\ \A e \in Execs :
           /\ WF_vars(InvokeTask(e))
           /\ WF_vars(\/ \E payload \in ReturnablePayloads(e) : TaskSucceeds(e, payload)
                      \/ \E err \in ErrorNames : TaskFails(e, err))
           /\ WF_vars(EvaluateSafetyCheck(e))
           /\ WF_vars(PublishSucceeds(e) \/ PublishFails(e))

\* The state machine fed with every PreCheck output its interface admits:
\* the gate as a function of the state data.
GateNext ==
    \E e \in Execs :
        \/ \E id \in AccountIds : StartExecution(e, id)
        \/ InvokeTask(e)
        \/ \E output \in PreCheckOutputs(data[e]) : PreCheckReturns(e, output)
        \/ \E payload \in ReturnablePayloads(e) :
               state[e] # "PreCheckTask" /\ TaskSucceeds(e, payload)
        \/ EvaluateSafetyCheck(e)
        \/ PublishSucceeds(e)

GateSpec == Init /\ [][GateNext]_vars

\* Two executions started for the same well-formed account, their stages
\* succeeding.
SameAccountNext ==
    \E e \in SameAccountExecs :
        \/ \E id \in { a \in AccountIds : IsWellFormedAccountId(a) } : StartExecution(e, id)
        \/ InvokeTask(e)
        \/ \E payload \in ReturnablePayloads(e) : TaskSucceeds(e, payload)
        \/ EvaluateSafetyCheck(e)
        \/ PublishSucceeds(e)

SameAccountSpec == InitWith(SameAccountExecs) /\ [][SameAccountNext]_vars

\* ------------------------------------------------------------------------
\* config.ts: the calls around getVpcConfig
\* ------------------------------------------------------------------------

\* process.env.X = value, or delete process.env.X, while the process sets
\* its environment up
SetVpcEnv(v, x) ==
    /\ ~vpcConfig.called
    /\ vpcEnv[v] # x
    /\ vpcEnv' = [vpcEnv EXCEPT ![v] = x]
    /\ UNCHANGED << vpcConfig, loggerVars, wfVars, otherInFlight, deployVars, configVars >>

getVpcConfig ==
    /\ vpcConfig' = [ called |-> TRUE,
                      privateSubnetIds |-> IdList(vpcEnv["PRIVATE_SUBNET_IDS"]),
                      securityGroupIds |-> IdList(vpcEnv["SECURITY_GROUP_IDS"]) ]
    /\ UNCHANGED << vpcEnv, loggerVars, wfVars, otherInFlight, deployVars, configVars >>

VpcNext ==
    \/ \E v \in VpcEnvVars :
           \/ SetVpcEnv(v, Unset)
           \/ \E str \in Strings : SetVpcEnv(v, [set |-> TRUE, value |-> str])
    \/ getVpcConfig

VpcSpec == Init /\ [][VpcNext]_vars

\* ------------------------------------------------------------------------
\* config.ts: the calls on a Logger
\* ------------------------------------------------------------------------

createLogger(context) ==
    /\ ~logger.created
    /\ logger' = [created |-> TRUE, initial |-> context, context |-> context]
    /\ UNCHANGED << applied, lastEntry, vpcVars, wfVars, otherInFlight, deployVars,
                    configVars >>

updateContext(updates) ==
    /\ logger.created
    /\ Len(applied) < MaxUpdates
    /\ logger' = [logger EXCEPT !.context = MergeContext(@, updates)]
    /\ applied' = Append(applied, updates)
    /\ UNCHANGED << lastEntry, vpcVars, wfVars, otherInFlight, deployVars, configVars >>

\* error / warn / info / debug: log writes one entry with the context
log(level) ==
    /\ logger.created
    /\ lastEntry' = [ logged |-> TRUE, level |-> level,
                      context |-> JsonContext(logger.context),
                      after |-> Len(applied) ]
    /\ UNCHANGED << logger, applied, vpcVars, wfVars, otherInFlight, deployVars,
                    configVars >>

LoggerNext ==
    \/ \E context \in InitialContexts : createLogger(context)
    \/ \E updates \in Updates : updateContext(updates)
    \/ \E level \in { "ERROR", "WARN", "INFO", "DEBUG" } : log(level)

LoggerSpec == Init /\ [][LoggerNext]_vars

\* Executions of well-formed accounts next to the invocations of other
\* executions, which share each function's reserved concurrency.
ConcurrentNext ==
    \/ \E e \in Execs :
           \/ \E id \in { a \in AccountIds : IsWellFormedAccountId(a) } : StartExecution(e, id)
           \/ InvokeTask(e)
           \/ InvokeThrottled(e)
           \/ \E payload \in ReturnablePayloads(e) : TaskSucceeds(e, payload)
           \/ TaskFails(e, "ValidationError")
           \/ EvaluateSafetyCheck(e)
           \/ PublishSucceeds(e)
    \/ \E t \in LambdaTasks : OtherInvokes(t) \/ OtherReturns(t)

ConcurrentSpec == Init /\ [][ConcurrentNext]_vars

\* ------------------------------------------------------------------------
\* Vocabulary of the properties
\* ------------------------------------------------------------------------

StageOrder ==
    << "PreCheckTask", "AccountManagementTask", "MetadataUpdateTask", "DecommissionTask" >>

StageIndex(t) == CHOOSE i \in 1..Len(StageOrder) : StageOrder[i] = t

LaterStages(t) == { StageOrder[i] : i \in (StageIndex(t) + 1)..Len(StageOrder) }

\* The stage completed successfully / ended in an error that was not retried.
Completed(e, t) == stageResults[e][t].recorded /\ stageResults[e][t].ok

StageFailed(e, t) == stageResults[e][t].recorded /\ ~stageResults[e][t].ok

\* The latest stage the execution has invoked.
LastInvoked(e) ==
    LET idx == { i \in 1..Len(StageOrder) : invocations[e][StageOrder[i]] > 0 }
    IN  StageOrder[CHOOSE i \in idx : \A j \in idx : j <= i]

Ended(e) == status[e] \in {"SUCCEEDED", "FAILED"}

Succeeded(e) == state[e] = "TerminationSucceeded"

SafetyViolation(e) == state[e] = "SafetyViolation"

Failed(e) == status[e] = "FAILED" /\ state[e] # "SafetyViolation"

ReportsCriticalResources(e) ==
    /\ Completed(e, "PreCheckTask")
    /\ \/ stageResults[e]["PreCheckTask"].payload.resourcesFound.ebsVolumes > 0
       \/ stageResults[e]["PreCheckTask"].payload.resourcesFound.rdsInstances > 0

\* ------------------------------------------------------------------------
\* Properties
\* ------------------------------------------------------------------------

\* C1: when PreCheck reports a nonzero count of EBS volumes or RDS
\* instances, AccountManagement, MetadataUpdate and VendorDecommission are
\* never invoked and the execution, once ended, is in SafetyViolation.
C1_SafetyGating ==
    \A e \in Execs :
        ReportsCriticalResources(e) =>
            /\ \A t \in LaterStages("PreCheckTask") : invocations[e][t] = 0
            /\ Ended(e) => SafetyViolation(e)

\* C2: the stages are invoked in the order PreCheck, AccountManagement,
\* MetadataUpdate, VendorDecommission: a stage is invoked only after the
\* preceding one completed successfully (AccountManagement only after the
\* safety gate passed), and at most one stage is in progress at a time.
C2_SequentialStages ==
    \A e \in Execs :
        /\ Cardinality(inProgress[e]) <= 1
        /\ \A i \in 2..Len(StageOrder) :
               invocations[e][StageOrder[i]] > 0 => Completed(e, StageOrder[i - 1])
        /\ invocations[e]["AccountManagementTask"] > 0 =>
               stageResults[e]["PreCheckTask"].payload.safeToTerminate
        /\ \A t \in inProgress[e] :
               /\ t = state[e]
               /\ ~stageResults[e][t].recorded
               /\ \A u \in LaterStages(t) : invocations[e][u] = 0

C2_Witness ==
    \E e \in Execs : "DecommissionTask" \in inProgress[e]

\* C3: when PreCheck, AccountManagement or MetadataUpdate ends in an error
\* that is not retryable or whose retries are exhausted, the execution is in
\* Failed and no later stage is invoked.
C3_FatalStageFailure ==
    \A e \in Execs :
        \A t \in {"PreCheckTask", "AccountManagementTask", "MetadataUpdateTask"} :
            StageFailed(e, t) =>
                /\ status[e] = "FAILED"
                /\ state[e] = "TerminationFailed"
                /\ inProgress[e] = {}
                /\ \A u \in LaterStages(t) : invocations[e][u] = 0

C3_Witness ==
    \E e \in Execs :
        /\ StageFailed(e, "MetadataUpdateTask")
        /\ stageResults[e]["MetadataUpdateTask"].error \in RetryableErrors("MetadataUpdateTask")
        /\ state[e] = "TerminationFailed"

\* C4: when PreCheck, AccountManagement and MetadataUpdate succeed and only
\* VendorDecommission fails, the execution still ends in Succeeded.
C4_VendorFailureTolerated ==
    \A e \in Execs :
        ( /\ Completed(e, "PreCheckTask")
          /\ Completed(e, "AccountManagementTask")
          /\ Completed(e, "MetadataUpdateTask")
          /\ StageFailed(e, "DecommissionTask")
          /\ Ended(e) ) => Succeeded(e)

\* C5: every execution that ends in Failed has dispatched a failure
\* notification.
C5_FailureNotified ==
    \A e \in Execs :
        Failed(e) =>
            \E i \in 1..Len(notifications[e]) :
                notifications[e][i].subject = NotificationSubject("FailureNotification")

\* C6: a stage whose executor always returns a transient error is invoked
\* exactly maxAttempts (3) times, after which the execution ends in Failed
\* when the stage is PreCheck, AccountManagement or MetadataUpdate.
C6_RetryBound ==
    \A e \in Execs :
        \A t \in {"PreCheckTask", "AccountManagementTask", "MetadataUpdateTask"} :
            ( StageFailed(e, t) /\ stageResults[e][t].error \in RetryableErrors(t) ) =>
                /\ invocations[e][t] = retryPolicy.maxAttempts
                /\ state[e] = "TerminationFailed"

\* C7: an error outside the retryable set is never retried: the stage is not
\* invoked again (exactly one invocation when it is the stage's first
\* outcome) and the error is handled at once by the catcher.
C7_PermanentNotRetried ==
    \A e \in Execs :
        ( lastOutcome[e] \in ErrorNames
          /\ lastOutcome[e] \in PermanentErrors(LastInvoked(e)) ) =>
            /\ inProgress[e] = {}
            /\ state[e] = "TerminationFailed"
            /\ status[e] = "FAILED"
            /\ StageFailed(e, LastInvoked(e))
            /\ stageResults[e][LastInvoked(e)].error = lastOutcome[e]
            /\ invocations[e][LastInvoked(e)] = 1 + attempts[e][1] + attempts[e][2]
            /\ attempts[e] = NoAttempts => invocations[e][LastInvoked(e)] = 1

C7_Witness ==
    \E e \in Execs :
        /\ lastOutcome[e] = "AccessDeniedException"
        /\ invocations[e]["AccountManagementTask"] = 1
        /\ state[e] = "TerminationFailed"

\* C8 as stated: an invocation that times out consumes a retry attempt and
\* the stage is invoked again while attempts remain.
C8_TimeoutRetried ==
    \A e \in Execs :
        ( lastOutcome[e] = "States.Timeout"
          /\ attempts[e][2] < retryPolicy.maxAttempts ) =>
            /\ status[e] = "RUNNING"
            /\ state[e] = LastInvoked(e)

\* C8 amended: an invocation that times out (States.Timeout) is outside the
\* retryable set: it consumes no retry attempt, the stage is not invoked
\* again and the execution goes to Failed at once.
C8_TimeoutNotRetried ==
    /\ [](\A e \in Execs :
            lastOutcome[e] = "States.Timeout" =>
                /\ state[e] = "TerminationFailed"
                /\ status[e] = "FAILED"
                /\ inProgress[e] = {})
    /\ [][\A e \in Execs :
            ( inProgress[e] # {} /\ inProgress'[e] = {}
              /\ lastOutcome'[e] = "States.Timeout" ) =>
                /\ attempts'[e] = attempts[e]
                /\ state'[e] = "TerminationFailed"]_vars

C8_Witness ==
    \E e \in Execs :
        /\ lastOutcome[e] = "States.Timeout"
        /\ StageFailed(e, "MetadataUpdateTask")
        /\ attempts[e][1] > 0

\* C9: an execution started with a malformed accountId invokes no stage.
C9_MalformedInputRejected ==
    \A e \in Execs :
        ( status[e] # "NOT_STARTED" /\ ~IsWellFormedAccountId(input[e]) ) =>
            \A t \in LambdaTasks : invocations[e][t] = 0

\* C10: an ended execution is in exactly one of Succeeded, Failed and
\* SafetyViolation, has no stage in progress, and takes no further step: no
\* stage is invoked and nothing of the execution changes.
C10_TerminalAbsorbing ==
    /\ [](\A e \in Execs :
            Ended(e) =>
                /\ Cardinality({ o \in {"Succeeded", "Failed", "SafetyViolation"} :
                                   \/ o = "Succeeded" /\ Succeeded(e)
                                   \/ o = "Failed" /\ Failed(e)
                                   \/ o = "SafetyViolation" /\ SafetyViolation(e) }) = 1
                /\ status[e] = "SUCCEEDED" <=> Succeeded(e)
                /\ inProgress[e] = {})
    /\ [][\A e \in Execs :
            Ended(e) =>
                /\ status'[e] = status[e]
                /\ state'[e] = state[e]
                /\ data'[e] = data[e]
                /\ inProgress'[e] = inProgress[e]
                /\ invocations'[e] = invocations[e]
                /\ stageResults'[e] = stageResults[e]
                /\ notifications'[e] = notifications[e]]_vars

C10_Witness ==
    \E e \in Execs :
        /\ Ended(e)
        /\ Succeeded(e)
        /\ Len(notifications[e]) = 1

\* Notifications of the execution published under the subject of a task.
NotificationsOf(e, task) ==
    { i \in 1..Len(notifications[e]) :
        notifications[e][i].subject = NotificationSubject(task) }

GateFoundUnsafe(e) ==
    /\ Completed(e, "PreCheckTask")
    /\ ~stageResults[e]["PreCheckTask"].payload.safeToTerminate

\* C11: when the safety gate finds the account unsafe, the ended execution
\* has dispatched exactly one safety-violation notification, PreCheck is the
\* only stage with a recorded result, and the execution is in SafetyViolation.
C11_SafetyPath ==
    \A e \in Execs :
        ( GateFoundUnsafe(e) /\ Ended(e) ) =>
            /\ Cardinality(NotificationsOf(e, "SafetyViolationNotification")) = 1
            /\ \A t \in LaterStages("PreCheckTask") : ~stageResults[e][t].recorded
            /\ SafetyViolation(e)

\* C13: a failure to deliver a notification never decides the outcome: no
\* execution ends in a notification state, and an execution whose four
\* stages all succeeded ends in Succeeded.
C13_NotificationFailureIgnored ==
    \A e \in Execs :
        Ended(e) =>
            /\ state[e] \notin NotificationTasks
            /\ (\A t \in LambdaTasks : Completed(e, t)) => Succeeded(e)

\* The message carries the outcome of the stage: every field of the stage's
\* payload is in it, with the payload's value.
CarriesOutcome(message, e, t) ==
    /\ Completed(e, t)
    /\ DOMAIN stageResults[e][t].payload \subseteq DOMAIN message
    /\ \A f \in DOMAIN stageResults[e][t].payload :
           message[f] = stageResults[e][t].payload[f]

\* C14 as stated: the success notification of a Succeeded execution carries
\* the outcomes of all four stages.
C14_SummaryOfAllStages ==
    \A e \in Execs :
        Succeeded(e) =>
            \E i \in NotificationsOf(e, "SuccessNotification") :
                \A t \in LambdaTasks : CarriesOutcome(notifications[e][i].message, e, t)

\* C14 amended: the success notification of a Succeeded execution is the
\* VendorDecommission output alone (accountId, vendorsProcessed, results);
\* the outputs of PreCheck, AccountManagement and MetadataUpdate are not in it.
C14_SummaryIsDecommissionOutput ==
    \A e \in Execs :
        Succeeded(e) =>
            /\ Cardinality(NotificationsOf(e, "SuccessNotification")) = 1
            /\ \A i \in NotificationsOf(e, "SuccessNotification") :
                   /\ notifications[e][i].message = stageResults[e]["DecommissionTask"].payload
                   /\ DOMAIN notifications[e][i].message =
                          {"accountId", "vendorsProcessed", "results"}
                   /\ \A t \in LambdaTasks \ {"DecommissionTask"} :
                          ~CarriesOutcome(notifications[e][i].message, e, t)

C14_Witness ==
    \E e \in Execs :
        /\ Succeeded(e)
        /\ NotificationsOf(e, "SuccessNotification") # {}
        /\ ~stageResults[e]["DecommissionTask"].payload.results.Prisma.success


\* The happy path's premise: a well-formed accountId, a PreCheck that
\* reports zero critical resources, and all four stages succeeded.
HappyPath(e) ==
    /\ IsWellFormedAccountId(input[e])
    /\ \A t \in LambdaTasks : Completed(e, t)
    /\ ~ReportsCriticalResources(e)

\* C12: an ended execution on the happy path is Succeeded, holds the results
\* of all four stages, and the account's metadata status is TERMINATED.
C12_HappyPath ==
    \A e \in Execs :
        (HappyPath(e) /\ Ended(e)) =>
            /\ Succeeded(e)
            /\ \A t \in LambdaTasks : stageResults[e][t].recorded
            /\ metadata[input[e]].exists
            /\ metadata[input[e]].status = "TERMINATED"

WithoutUpdatedAt(record) == [f \in DOMAIN record \ {"updatedAt"} |-> record[f]]

\* The patch the MetadataUpdate invocations of execution e write.
PatchOf(e) == MetadataPatch(stageResults[e]["AccountManagementTask"].payload)

\* C16: writing the stage's patch once more leaves the stored record as it
\* is, except for updatedAt, and the record stored after any number of
\* MetadataUpdate invocations is the record a single write stores.
C16_IdempotentPatch ==
    \A e \in Execs :
        (Completed(e, "AccountManagementTask") /\ metadata[input[e]].exists) =>
            /\ WithoutUpdatedAt(Upsert(metadata[input[e]], PatchOf(e), clock + 1))
                   = WithoutUpdatedAt(metadata[input[e]])
            /\ WithoutUpdatedAt(metadata[input[e]])
                   = WithoutUpdatedAt(Upsert(NoRecord, PatchOf(e), metadata[input[e]].createdAt))

\* A retried MetadataUpdate invocation wrote a second time.
C16_Witness ==
    \E e \in Execs :
        /\ invocations[e]["MetadataUpdateTask"] >= 2
        /\ metadata[input[e]].exists
        /\ metadata[input[e]].updatedAt > metadata[input[e]].createdAt


\* C15: no execution fails because of the invocations of other executions:
\* a failed stage failed with an error of its own handler.
C15_ExecutionsIndependent ==
    \A e \in Execs : \A t \in LambdaTasks :
        StageFailed(e, t) => stageResults[e][t].error # ThrottlingError


\* The run is over, every tool worked, nobody interrupted it and the
\* operator did not decline.
UndisturbedExit ==
    /\ pc = "exited"
    /\ healthy
    /\ reply = NotAsked \/ Confirms(reply)

\* C17: a run with VPC_ID unset is not aborted: validate_environment has
\* warned, and when nothing else goes wrong the run ends with the stack
\* deployed and status 0.
C17_UnsetVpcDoesNotAbort ==
    (UndisturbedExit /\ env["VPC_ID"] = "" /\ env["DYNAMODB_TABLE_NAME"] # "") =>
        /\ "VPC_ID" \in warnings
        /\ deployed
        /\ exitCode = 0

\* The functions that must have returned before cdk deploy runs.
BeforeDeploy ==
    << "check_aws_cli", "check_cdk", "validate_environment", "build_project",
       "run_tests", "synthesize_template" >>

\* C18: cdk deploy has run only if the six earlier functions returned, in
\* that order, and the operator answered y or Y; a run that ends before the
\* prompt has a non-zero status and has not deployed; a declined
\* confirmation ends the run with status 0 and without deploying.
C18_DeployOrder ==
    /\ deployed => /\ Len(steps) >= Len(BeforeDeploy)
                   /\ SubSeq(steps, 1, Len(BeforeDeploy)) = BeforeDeploy
                   /\ Confirms(reply)
    /\ (pc = "exited" /\ reply = NotAsked) => (exitCode # 0 /\ ~deployed)
    /\ (reply # NotAsked /\ ~Confirms(reply)) =>
           (pc = "exited" /\ exitCode = 0 /\ ~deployed)

\* A run deployed after the operator's y; another was declined.
C18_Witness ==
    /\ pc = "exited"
    /\ deployed
    /\ exitCode = 0
    /\ reply = "Y"
    /\ Len(steps) = Len(MainSteps)


\* C19: every call of getInstance() returned the one instance, and the
\* constructor ran at most once.
C19_Singleton ==
    /\ constructed <= 1
    /\ \A i, j \in 1..Len(returned) : returned[i] = returned[j]
    /\ returned # << >> => (instance # NoInstance /\ instance.id = returned[1])

\* getInstance() was called again while the held configuration is no longer
\* what the constructor would read from process.env.
C19_Witness ==
    /\ Len(returned) >= 2
    /\ instance # NoInstance
    /\ NewConfig(processEnv) # instance.config

\* C20: validateConfig() returned true exactly when the four fields of the
\* held configuration are all non-empty.
C20_ValidateConfig ==
    validated # NotCalled =>
        (validated[1] <=> \A f \in ConfigFields : instance.config[f] # "")

\* validateConfig() returned false for a configuration whose region is set.
C20_Witness ==
    /\ validated = << FALSE >>
    /\ instance.config.region # ""
    /\ instance.config.managementAccountRoleArn = ""


Started(e, t) == invocations[e][t] > 0

RequiredInputFields(t) ==
    CASE t = "PreCheckTask" -> { "accountId" }
      [] t = "AccountManagementTask" -> { "accountId" }
      [] t = "MetadataUpdateTask" -> { "accountId", "terminationStatus", "executionArn" }
      [] t = "DecommissionTask" -> { "accountId" }

\* C22: a stage being invoked has, in its input, every field its input
\* interface requires, and the accountId the execution was started with.
C22_StageInputsComplete ==
    \A e \in Execs : \A t \in inProgress[e] :
        /\ RequiredInputFields(t) \subseteq DOMAIN data[e]
        /\ data[e].accountId = input[e]


\* The gate has been evaluated on the PreCheck output.
PastGate(e) ==
    /\ Completed(e, "PreCheckTask")
    /\ state[e] # "SafetyCheck"

OnViolationBranch(e) == state[e] \in { "SafetyViolationNotification", "SafetyViolation" }

\* C23: past the gate, the execution is on the SafetyViolation branch
\* exactly when the PreCheck output's safeToTerminate is false, and otherwise
\* has gone on to AccountManagement, whatever the counts in that output.
C23_GateBySafeToTerminate ==
    \A e \in Execs :
        PastGate(e) =>
            IF stageResults[e]["PreCheckTask"].payload.safeToTerminate = FALSE
            THEN OnViolationBranch(e) /\ ~Started(e, "AccountManagementTask")
            ELSE ~OnViolationBranch(e) /\
                 (Started(e, "AccountManagementTask") \/ state[e] = "AccountManagementTask")

\* AccountManagement runs although the PreCheck output counts a volume.
C23_Witness ==
    \E e \in Execs :
        /\ PastGate(e)
        /\ stageResults[e]["PreCheckTask"].payload.safeToTerminate
        /\ stageResults[e]["PreCheckTask"].payload.resourcesFound.ebsVolumes > 0
        /\ Started(e, "AccountManagementTask")


\* C24: an execution dispatches at most one notification; a success
\* notification only when all four stages succeeded; a safety-violation
\* notification only when PreCheck succeeded and no later stage was started.
C24_NotificationsMatchOutcome ==
    \A e \in Execs :
        /\ Len(notifications[e]) <= 1
        /\ NotificationsOf(e, "SuccessNotification") # {} =>
               \A t \in LambdaTasks : Completed(e, t)
        /\ NotificationsOf(e, "SafetyViolationNotification") # {} =>
               /\ Completed(e, "PreCheckTask")
               /\ \A t \in LaterStages("PreCheckTask") : ~Started(e, t)

\* A success notification has been dispatched.
C24_Witness ==
    \E e \in Execs :
        /\ NotificationsOf(e, "SuccessNotification") # {}
        /\ Succeeded(e)


\* C25: nothing is rolled back when an execution fails. A failed execution
\* whose MetadataUpdate succeeded still has its record, with status
\* TERMINATED; and the step that fails the execution invokes nothing, leaves
\* the results of the stages that had succeeded as they were, and leaves
\* every record already written intact apart from updatedAt.
C25_NoRollback ==
    /\ [](\A e \in Execs :
            (Failed(e) /\ Completed(e, "MetadataUpdateTask")) =>
                /\ metadata[input[e]].exists
                /\ metadata[input[e]].status = "TERMINATED")
    /\ [][\A e \in Execs :
            (~Failed(e) /\ Failed(e)') =>
                /\ invocations'[e] = invocations[e]
                /\ \A t \in LambdaTasks :
                       Completed(e, t) => stageResults'[e][t] = stageResults[e][t]
                /\ \A id \in AccountIds :
                       metadata[id].exists =>
                           WithoutUpdatedAt(metadata'[id]) = WithoutUpdatedAt(metadata[id])]_vars

\* Decommission failed the execution after MetadataUpdate had written.
C25_Witness ==
    \E e \in Execs :
        /\ Failed(e)
        /\ StageFailed(e, "DecommissionTask")
        /\ Completed(e, "MetadataUpdateTask")
        /\ metadata[input[e]].exists


\* C26: nothing serializes executions of one account: an execution not yet
\* started can be started for the account another execution runs for, and
\* an execution waiting to invoke a stage can invoke it whatever the other
\* execution is doing.
C26_NoMutualExclusion ==
    \A e \in SameAccountExecs :
        /\ status[e] = "NOT_STARTED" =>
               \A other \in SameAccountExecs \ {e} :
                   status[other] # "NOT_STARTED" => ENABLED StartExecution(e, input[other])
        /\ (Running(e) /\ state[e] \in LambdaTasks /\ inProgress[e] = {}) =>
               ENABLED InvokeTask(e)

\* Both executions have AccountManagement in flight for the same account.
C26_Witness ==
    \E e1, e2 \in SameAccountExecs :
        /\ e1 # e2
        /\ input[e1] = input[e2]
        /\ "AccountManagementTask" \in inProgress[e1]
        /\ "AccountManagementTask" \in inProgress[e2]


\* C27: a started execution eventually ends.
C27_EventuallyEnds ==
    \A e \in Execs : (status[e] = "RUNNING") ~> Ended(e)

\* An execution has ended after a stage used up its retries.
C27_Witness ==
    \E e \in Execs :
        /\ Ended(e)
        /\ \E t \in LambdaTasks : StageFailed(e, t) /\ invocations[e][t] > 1


Entries(str) ==
    LET commas == { i \in 1..Len(str) : str[i] = "," }
        before(i) == Cardinality({ c \in commas : c < i })
    IN  [ k \in 1..(Cardinality(commas) + 1) |->
            LET idx == { i \in 1..Len(str) : str[i] # "," /\ before(i) = k - 1 }
                first == Cardinality({ i \in 1..Len(str) : before(i) < k - 1 \/
                                                          (str[i] = "," /\ before(i) = k - 2) })
            IN  [ j \in 1..Cardinality(idx) |-> str[first + j] ] ]

Blank(entry) == \A i \in 1..Len(entry) : entry[i] = " "

\* The entries that are not blank, in their order.
RECURSIVE NonBlank(_)
NonBlank(entries) ==
    IF entries = << >> THEN << >>
    ELSE IF Blank(Head(entries)) THEN NonBlank(Tail(entries))
    ELSE << Head(entries) >> \o NonBlank(Tail(entries))

\* The variable is unset or empty.
EmptyValue(x) == ~x.set \/ x = [set |-> TRUE, value |-> << >>]

Expected(x) == IF x.set THEN NonBlank(Entries(x.value)) ELSE << >>

Writers(f) == { i \in 1..Len(applied) : f \in DOMAIN applied[i] }

LastWriter(f) == CHOOSE i \in Writers(f) : \A j \in Writers(f) : j <= i

\* C30: every field of the logger's context holds the value of the latest
\* update that names it, and a field no update names is as the constructor
\* got it; an entry logged after the updates carries that context.
C30_UpdateContextMerges ==
    logger.created =>
        /\ \A f \in LogFields :
               IF Writers(f) = {}
               THEN /\ f \in DOMAIN logger.context <=> f \in DOMAIN logger.initial
                    /\ f \in DOMAIN logger.initial => logger.context[f] = logger.initial[f]
               ELSE /\ f \in DOMAIN logger.context
                    /\ logger.context[f] = applied[LastWriter(f)][f]
        /\ (lastEntry.logged /\ lastEntry.after = Len(applied)) =>
               \A f \in LogFields :
                   IF f \in DOMAIN logger.context /\ logger.context[f] # Undefined
                   THEN f \in DOMAIN lastEntry.context /\
                        lastEntry.context[f] = logger.context[f]
                   ELSE f \notin DOMAIN lastEntry.context

\* An entry logged after two updates: stage overwritten, executionArn added,
\* correlationId as constructed.
C30_Witness ==
    /\ logger.created
    /\ Len(applied) = 2
    /\ lastEntry.logged
    /\ lastEntry.after = 2
    /\ "correlationId" \notin DOMAIN applied[1] \cup DOMAIN applied[2]
    /\ lastEntry.context = [correlationId |-> "old", stage |-> "new", executionArn |-> "new"]

====
